---- MODULE Spec2Model ----
(***************************************************************************)
(* Model of the ETH options data pipeline: src/main.py (the "nearest two"  *)
(* variant, Policy B, band 7%) and src/deltaweekly.py (the "weekly"        *)
(* variant, Policy A, band 25%).                                           *)
(*                                                                         *)
(* Three specifications share the module's variables:                      *)
(*   SpecSel   the two expiry selectors applied to bounded date lists      *)
(*   SpecBand  filter_strikes_by_percentage applied to bounded inputs      *)
(*   Spec      main(): poll after poll against the worksheet               *)
(***************************************************************************)
EXTENDS Integers, Sequences, FiniteSets, TLC

VARIABLES
    \* ---- selector harness (SpecSel)
    expiry_dates,    \* the list handed to the selector
    current_date,    \* datetime.date.today() as read by the selector
    selector,        \* "none" | "A" | "B": which selector has run
    window,          \* the list the selector returned
    \* ---- band filter harness (SpecBand)
    future_price, strike_price, percentage,  \* the three arguments
    band_called,     \* the function has been called on them
    band_result,     \* what it returned
    \* ---- main() (Spec)
    variant,         \* "main" (src/main.py) | "weekly" (src/deltaweekly.py)
    date_today,      \* datetime.date.today() during the runs
    worksheet,       \* the rows of the sheet below its header row
    pc,              \* where main() stands; "idle" between two runs
    polls,           \* runs of main() started so far
    tickers,         \* the feed's records of this run
    current_df,      \* main()'s current_df
    previous_df,     \* main()'s previous_df
    final_df,        \* main()'s final_df
    success,         \* what append_to_sheets returned
    outcome,         \* what the run logged last
    appended,        \* the rows this run added to the sheet
    last_batch,      \* the rows the last appending run before this one added
    read_error,      \* get_previous_data logged an error in this run
    \* ---- fetch harness (SpecFetch)
    fetch_called,    \* fetch_eth_options_data has been called on tickers
    fetch_window,    \* its target_expiries; <<>> when it returned before
    parse_kinds      \* second pass, per record: what became of the record

selVars  == <<expiry_dates, current_date, selector, window>>
bandVars == <<future_price, strike_price, percentage, band_called, band_result>>
runVars  == <<tickers, current_df, previous_df, final_df, success,
              outcome, appended, read_error>>
mainVars == <<variant, date_today, worksheet, pc, polls, runVars, last_batch>>
fetchVars == <<fetch_called, fetch_window, parse_kinds>>
vars == <<selVars, bandVars, mainVars, fetchVars>>

(***************************************************************************)
(* Generic helpers.                                                        *)
(***************************************************************************)
Range(s) == {s[i] : i \in DOMAIN s}

SetMin(S) == CHOOSE x \in S : \A y \in S : x <= y

\* Python's sorted(set(xs)) for a list of dates: ascending, no repetition.
RECURSIVE SortedList(_)
SortedList(S) ==
    IF S = {} THEN <<>>
    ELSE LET m == SetMin(S) IN <<m>> \o SortedList(S \ {m})

\* Variant of sorted_set: the list as it was given.
unsorted_list(xs) == xs

sorted_set(xs) == SortedList(Range(xs))

\* All lists over S of length at most n.
RECURSIVE ListsUpTo(_, _)
ListsUpTo(S, n) ==
    IF n = 0 THEN {<<>>}
    ELSE LET shorter == ListsUpTo(S, n - 1)
         IN shorter \cup {Append(l, x) : l \in {m \in shorter : Len(m) = n - 1}, x \in S}

(***************************************************************************)
(* datetime.date: a date is its proleptic Gregorian ordinal, as            *)
(* date.toordinal() gives it (0001-01-01 is 1, a Monday).                  *)
(***************************************************************************)
is_leap(y) == y % 4 = 0 /\ (y % 100 # 0 \/ y % 400 = 0)

days_in_month(y, m) ==
    IF m = 2 THEN (IF is_leap(y) THEN 29 ELSE 28)
    ELSE IF m \in {4, 6, 9, 11} THEN 30 ELSE 31

days_before_year(y) ==
    (y - 1) * 365 + ((y - 1) \div 4) - ((y - 1) \div 100) + ((y - 1) \div 400)

RECURSIVE days_before_month(_, _)
days_before_month(y, m) ==
    IF m = 1 THEN 0 ELSE days_before_month(y, m - 1) + days_in_month(y, m - 1)

\* datetime.date(y, m, d) raises ValueError unless this holds.
date_valid(y, m, d) ==
    /\ y >= 1 /\ y <= 9999
    /\ m >= 1 /\ m <= 12
    /\ d >= 1 /\ d <= days_in_month(y, m)

date(y, m, d) == days_before_year(y) + days_before_month(y, m) + d

\* date.weekday(): Monday is 0, Friday is 4.
weekday(dt) == (dt + 6) % 7

(***************************************************************************)
(* Policy B, src/main.py get_current_and_next_expiry.                      *)
(* None is the empty list, a date d is <<d>>.                              *)
(***************************************************************************)
\* Mutant of expiry_loop: a date equal to today counts as expired.
RECURSIVE expiry_loop_strict(_, _, _, _)
expiry_loop_strict(rest, today, cur, nxt) ==
    IF rest = <<>> THEN <<cur, nxt>>
    ELSE LET expiry == Head(rest) IN
         IF expiry > today
         THEN IF cur = <<>>
              THEN expiry_loop_strict(Tail(rest), today, <<expiry>>, nxt)
              ELSE IF nxt = <<>> /\ expiry > cur[1]
                   THEN <<cur, <<expiry>>>>
                   ELSE expiry_loop_strict(Tail(rest), today, cur, nxt)
         ELSE expiry_loop_strict(Tail(rest), today, cur, nxt)

\* The loop of lines 52-58 over the rest of unique_expiries; cur and nxt are
\* current_expiry and next_expiry so far.  Returns <<cur, nxt>>.
RECURSIVE expiry_loop(_, _, _, _)
expiry_loop(rest, today, cur, nxt) ==
    IF rest = <<>> THEN <<cur, nxt>>
    ELSE LET expiry == Head(rest) IN
         IF expiry >= today
         THEN IF cur = <<>>
              THEN expiry_loop(Tail(rest), today, <<expiry>>, nxt)
              ELSE IF nxt = <<>> /\ expiry > cur[1]
                   THEN <<cur, <<expiry>>>>                       \* break
                   ELSE expiry_loop(Tail(rest), today, cur, nxt)
         ELSE expiry_loop(Tail(rest), today, cur, nxt)

get_current_and_next_expiry(dates, today) ==
    LET unique_expiries == sorted_set(dates)
        looped == expiry_loop(unique_expiries, today, <<>>, <<>>)
        current_expiry ==
            IF looped[1] = <<>> /\ unique_expiries # <<>>
            THEN <<unique_expiries[Len(unique_expiries)]>>        \* line 61
            ELSE looped[1]
        next_expiry == looped[2]
    IN current_expiry \o next_expiry

(***************************************************************************)
(* Policy A, src/deltaweekly.py get_current_and_next_friday_expiry.        *)
(***************************************************************************)
\* Mutant of first_counted_friday: the count rule asks for more than 2.
RECURSIVE first_counted_friday_over2(_, _)
first_counted_friday_over2(fridays, active_expiries) ==
    IF fridays = <<>> THEN <<>>
    ELSE LET friday_exp == Head(fridays)
             IsBefore(exp) == exp < friday_exp
             count == Len(SelectSeq(active_expiries, IsBefore))
         IN IF count > 2 THEN <<friday_exp>>
            ELSE first_counted_friday_over2(Tail(fridays), active_expiries)

\* Lines 70-81: the first Friday with at least 2 active expiries before it.
RECURSIVE first_counted_friday(_, _)
first_counted_friday(fridays, active_expiries) ==
    IF fridays = <<>> THEN <<>>
    ELSE LET friday_exp == Head(fridays)
             IsBefore(exp) == exp < friday_exp
             count == Len(SelectSeq(active_expiries, IsBefore))
         IN IF count >= 2 THEN <<friday_exp>>
            ELSE first_counted_friday(Tail(fridays), active_expiries)

\* Lines 89-94: the first Friday after W1.
RECURSIVE first_friday_after(_, _)
first_friday_after(fridays, w1_expiry) ==
    IF fridays = <<>> THEN <<>>
    ELSE IF Head(fridays) > w1_expiry THEN <<Head(fridays)>>
         ELSE first_friday_after(Tail(fridays), w1_expiry)

get_current_and_next_friday_expiry(dates, today) ==
    LET unique_expiries == sorted_set(dates)
        IsActive(exp) == exp >= today
        active_expiries == SelectSeq(unique_expiries, IsActive)
        IsFriday(exp) == weekday(exp) = 4
        friday_expiries == SelectSeq(active_expiries, IsFriday)
    IN IF active_expiries = <<>> THEN <<>>
       ELSE IF friday_expiries = <<>> THEN <<>>
       ELSE LET counted == first_counted_friday(friday_expiries, active_expiries)
                w1_expiry == IF counted = <<>> THEN friday_expiries[1] ELSE counted[1]
                w2_expiry == first_friday_after(friday_expiries, w1_expiry)
            IN <<w1_expiry>> \o w2_expiry

(***************************************************************************)
(* Python floats (IEEE 754 binary64, round to nearest, ties to even).      *)
(* A non-negative real with finitely many binary digits is a list of       *)
(* limbs, most significant first: IntLimbs limbs of LimbBits bits before   *)
(* the binary point and FracLimbs after it.  An operation is computed      *)
(* exactly on limbs and then rounded to Precision significant bits, as the *)
(* hardware does.  Domain: integer prices below 2^14 and percentages       *)
(* 0..100, whose exact intermediate results fit the limbs.                 *)
(***************************************************************************)
Precision == 53
LimbBits == 8
IntLimbs == 2
FracLimbs == 8
Limbs == IntLimbs + FracLimbs
Bits == Limbs * LimbBits

RECURSIVE pow2(_)
pow2(n) == IF n = 0 THEN 1 ELSE 2 * pow2(n - 1)

Base == pow2(LimbBits)

RECURSIVE pow_base(_)
pow_base(n) == IF n = 0 THEN 1 ELSE Base * pow_base(n - 1)

\* Bit g of a, g = 1 the most significant.
limb_of(g) == ((g - 1) \div LimbBits) + 1
weight_of(g) == pow2(LimbBits - 1 - ((g - 1) % LimbBits))
bit(a, g) == (a[limb_of(g)] \div weight_of(g)) % 2

\* float(n) for an integer 0 <= n < Base^IntLimbs: exact.
from_int(n) ==
    [k \in 1..Limbs |->
        IF k <= IntLimbs THEN (n \div pow_base(IntLimbs - k)) % Base ELSE 0]

\* The first k limbs after the point of r/d (0 <= r < d).
RECURSIVE frac_limbs(_, _, _)
frac_limbs(r, d, k) ==
    IF k = 0 THEN <<>>
    ELSE <<(Base * r) \div d>> \o frac_limbs((Base * r) % d, d, k - 1)

\* What is left of r/d after those k limbs.
RECURSIVE frac_rest(_, _, _)
frac_rest(r, d, k) ==
    IF k = 0 THEN r ELSE frac_rest((Base * r) % d, d, k - 1)

\* The carry out of limbs k..Limbs of a + b.
RECURSIVE add_carry(_, _, _)
add_carry(a, b, k) ==
    IF k > Limbs THEN 0 ELSE (a[k] + b[k] + add_carry(a, b, k + 1)) \div Base

add_limbs(a, b) ==
    [k \in 1..Limbs |-> (a[k] + b[k] + add_carry(a, b, k + 1)) % Base]

\* The borrow out of limbs k..Limbs of a - b (a >= b).
RECURSIVE sub_borrow(_, _, _)
sub_borrow(a, b, k) ==
    IF k > Limbs THEN 0
    ELSE IF a[k] - b[k] - sub_borrow(a, b, k + 1) < 0 THEN 1 ELSE 0

sub_limbs(a, b) ==
    [k \in 1..Limbs |-> (a[k] - b[k] - sub_borrow(a, b, k + 1) + Base) % Base]

\* The carry out of limbs k..Limbs of a * n, n an integer >= 0.
RECURSIVE mul_carry(_, _, _)
mul_carry(a, n, k) ==
    IF k > Limbs THEN 0 ELSE (a[k] * n + mul_carry(a, n, k + 1)) \div Base

mul_limbs(a, n) ==
    [k \in 1..Limbs |-> (a[k] * n + mul_carry(a, n, k + 1)) % Base]

\* a <= b.
leq_limbs(a, b) ==
    \/ \A k \in 1..Limbs : a[k] = b[k]
    \/ \E k \in 1..Limbs :
          /\ a[k] < b[k]
          /\ \A j \in 1..(k - 1) : a[j] = b[j]

\* The limbs as a tuple: every limb computed once.
RECURSIVE tuple_of(_, _)
tuple_of(a, k) == IF k = 0 THEN <<>> ELSE Append(tuple_of(a, k - 1), a[k])

\* Round to nearest, ties to even, at Precision significant bits; sticky
\* says that the exact value has non-zero digits beyond the last limb.
round_limbs(exact, sticky) ==
    LET a == tuple_of(exact, Limbs) IN
    IF \A k \in 1..Limbs : a[k] = 0 THEN a
    ELSE LET top == CHOOSE k \in 1..Limbs :
                        a[k] # 0 /\ \A j \in 1..(k - 1) : a[j] = 0
             above == (top - 1) * LimbBits
             lead == CHOOSE g \in (above + 1)..(above + LimbBits) :
                         bit(a, g) = 1 /\ \A h \in (above + 1)..(g - 1) : bit(a, h) = 0
             last == lead + Precision - 1
         IN IF last >= Bits THEN a
            ELSE LET guard == bit(a, last + 1)
                     rest == sticky \/ \E h \in (last + 2)..Bits : bit(a, h) = 1
                     kept == [k \in 1..Limbs |->
                                IF k < limb_of(last) THEN a[k]
                                ELSE IF k = limb_of(last)
                                     THEN a[k] - (a[k] % weight_of(last))
                                     ELSE 0]
                     ulp == [k \in 1..Limbs |->
                                IF k = limb_of(last) THEN weight_of(last) ELSE 0]
                 IN IF guard = 1 /\ (rest \/ bit(a, last) = 1)
                    THEN tuple_of(add_limbs(kept, ulp), Limbs)
                    ELSE tuple_of(kept, Limbs)

\* n / d for integers n >= 0, d > 0: Python's true division.
float_div(n, d) ==
    LET whole == from_int(n \div d)
        frac == frac_limbs(n % d, d, FracLimbs)
        exact == [k \in 1..Limbs |->
                     IF k <= IntLimbs THEN whole[k] ELSE frac[k - IntLimbs]]
    IN round_limbs(exact, frac_rest(n % d, d, FracLimbs) # 0)

float_add(a, b) == round_limbs(add_limbs(a, b), FALSE)
float_sub(a, b) == round_limbs(sub_limbs(a, b), FALSE)
\* n * a for an integer-valued float n.
float_mul(n, a) == round_limbs(mul_limbs(a, n), FALSE)

(***************************************************************************)
(* filter_strikes_by_percentage, the same in both files (the default of    *)
(* percentage differs, and every call passes it).                          *)
(***************************************************************************)
\* Mutant of filter_strikes_by_percentage: both bounds exclusive.
filter_strikes_exclusive(fp, strike, pct) ==
    LET ratio == float_div(pct, 100)
        lower_bound == float_mul(fp, float_sub(from_int(1), ratio))
        upper_bound == float_mul(fp, float_add(from_int(1), ratio))
    IN /\ ~leq_limbs(from_int(strike), lower_bound)
       /\ ~leq_limbs(upper_bound, from_int(strike))

filter_strikes_by_percentage(fp, strike, pct) ==
    LET ratio == float_div(pct, 100)
        lower_bound == float_mul(fp, float_sub(from_int(1), ratio))
        upper_bound == float_mul(fp, float_add(from_int(1), ratio))
    IN /\ leq_limbs(lower_bound, from_int(strike))
       /\ leq_limbs(from_int(strike), upper_bound)


(***************************************************************************)
(* Strings.  A string is the list of its characters; the symbols of the    *)
(* feed use the characters below.  char_code is ord().                     *)
(***************************************************************************)
char_code ==
    [c \in {"-", "0", "1", "2", "3", "4", "5", "6", "7", "8", "9",
            "C", "E", "H", "P", "T"} |->
        CASE c = "-" -> 45
          [] c = "0" -> 48 [] c = "1" -> 49 [] c = "2" -> 50 [] c = "3" -> 51
          [] c = "4" -> 52 [] c = "5" -> 53 [] c = "6" -> 54 [] c = "7" -> 55
          [] c = "8" -> 56 [] c = "9" -> 57
          [] c = "C" -> 67 [] c = "E" -> 69 [] c = "H" -> 72
          [] c = "P" -> 80 [] c = "T" -> 84]

is_digit(c) == char_code[c] >= 48 /\ char_code[c] <= 57
digit(c) == char_code[c] - 48

\* s < t, as Python compares strings.
RECURSIVE str_less(_, _)
str_less(s, t) ==
    IF t = <<>> THEN FALSE
    ELSE IF s = <<>> THEN TRUE
    ELSE IF Head(s) = Head(t) THEN str_less(Tail(s), Tail(t))
    ELSE char_code[Head(s)] < char_code[Head(t)]

\* s.split('-'): the parts between the dashes; cur is the part being read.
RECURSIVE split_from(_, _)
split_from(s, cur) ==
    IF s = <<>> THEN <<cur>>
    ELSE IF Head(s) = "-" THEN <<cur>> \o split_from(Tail(s), <<>>)
    ELSE split_from(Tail(s), Append(cur, Head(s)))

split(s) == split_from(s, <<>>)

\* int(s) for a two-character slice: <<n>>, or <<>> for ValueError.
int2(s) ==
    IF is_digit(s[1]) /\ is_digit(s[2]) THEN <<10 * digit(s[1]) + digit(s[2])>>
    ELSE <<>>

\* Lines 125-129 of main.py (167-171 of deltaweekly.py): the date of a
\* 6-character suffix DDMMYY as <<year, month, day>>, or <<>> when int() or
\* datetime.date() raises.
parse_expiry(expiry_str) ==
    LET day == int2(SubSeq(expiry_str, 1, 2))
        month == int2(SubSeq(expiry_str, 3, 4))
        yy == int2(SubSeq(expiry_str, 5, 6))
    IN IF day = <<>> \/ month = <<>> \/ yy = <<>> THEN <<>>
       ELSE IF ~date_valid(2000 + yy[1], month[1], day[1]) THEN <<>>
       ELSE <<<<2000 + yy[1], month[1], day[1]>>>>

\* The datetime.date of <<year, month, day>>.
date_of(ymd) == date(ymd[1], ymd[2], ymd[3])

(***************************************************************************)
(* Cells: what a column of a frame or of the sheet holds.                  *)
(***************************************************************************)
Num(n) == <<"num", n>>
Blank == <<"blank">>          \* the empty string ''
NaN == <<"nan">>
None == <<"none">>
is_num(c) == c[1] = "num"

(***************************************************************************)
(* fetch_eth_options_data.  A feed record has the fields symbol (a         *)
(* string, '' when missing), contract_type (a string) and strike_price,    *)
(* spot_price, mark_price, oi_contracts: <<>> when the key is missing,     *)
(* <<n>> for the decimal string of the integer n.                          *)
(***************************************************************************)
\* Lines 119-132: the first pass, one record: the expiry it adds, if any.
first_pass(ticker) ==
    LET symbol_parts == split(ticker.symbol)
        expiry_str == symbol_parts[Len(symbol_parts)]
    IN IF Len(symbol_parts) >= 4 /\ Len(expiry_str) = 6
       THEN LET ymd == parse_expiry(expiry_str)
            IN IF ymd = <<>> THEN <<>> ELSE <<date_of(ymd[1])>>
       ELSE <<>>

RECURSIVE all_expiry_dates(_)
all_expiry_dates(ts) ==
    IF ts = <<>> THEN <<>>
    ELSE first_pass(Head(ts)) \o all_expiry_dates(Tail(ts))

\* Variant of band_of: both files pass the 25% band.
band_of_weekly(v) == 25

\* The band each file passes to filter_strikes_by_percentage.
band_of(v) == IF v = "main" THEN 7 ELSE 25

\* The selector each file calls.
target_expiries_of(v, ts, day) ==
    IF v = "main" THEN get_current_and_next_expiry(all_expiry_dates(ts), day)
    ELSE get_current_and_next_friday_expiry(all_expiry_dates(ts), day)

\* Lines 148-214: the second pass, one record: [kind, row], kind being
\* "failed" (failed_parses), "strike" (filtered_by_strike), "expiry" (not in
\* the window) or "row" (appended to eth_options).
second_pass(v, ticker, target_expiries, day, time) ==
    LET symbol == ticker.symbol
        no_row == [kind |-> "failed", row |-> <<>>]
    IN IF symbol = <<>> \/ ticker.strike_price = <<>>
          \/ ticker.contract_type = "" \/ ticker.spot_price = <<>>
       THEN no_row
       ELSE LET strike == ticker.strike_price[1]
                spot == ticker.spot_price[1]
            IN IF ~filter_strikes_by_percentage(spot, strike, band_of(v))
               THEN [kind |-> "strike", row |-> <<>>]
               ELSE LET symbol_parts == split(symbol)
                        expiry_str == symbol_parts[Len(symbol_parts)]
                    IN IF Len(symbol_parts) < 4 THEN no_row
                       ELSE IF Len(expiry_str) # 6 THEN no_row
                       ELSE LET ymd == parse_expiry(expiry_str)
                            IN IF ymd = <<>> THEN no_row
                               ELSE IF date_of(ymd[1]) \notin Range(target_expiries)
                               THEN [kind |-> "expiry", row |-> <<>>]
                               ELSE [kind |-> "row", row |-> <<
                                    [SYMBOL |-> symbol,
                                     Date |-> day,
                                     Time |-> time,
                                     Future_Price |-> spot,
                                     Expiry_Date |-> ymd[1],
                                     Strike |-> strike,
                                     Option_Type |->
                                        IF ticker.contract_type = "call_options"
                                        THEN "Call" ELSE "Put",
                                     Close |->
                                        IF ticker.mark_price = <<>> THEN Num(0)
                                        ELSE Num(ticker.mark_price[1]),
                                     OI |->
                                        IF ticker.oi_contracts = <<>> THEN 0
                                        ELSE ticker.oi_contracts[1],
                                     Open |-> IF v = "main" THEN Blank ELSE Num(0),
                                     OI_Change |-> IF v = "main" THEN Blank ELSE Num(0)]>>]

RECURSIVE eth_options(_, _, _, _, _)
eth_options(v, ts, target_expiries, day, time) ==
    IF ts = <<>> THEN <<>>
    ELSE second_pass(v, Head(ts), target_expiries, day, time).row
         \o eth_options(v, Tail(ts), target_expiries, day, time)

\* Mutant of drop_duplicates_last: keep='first'.
drop_duplicates_first(rows) ==
    LET Keep(i) == \A j \in 1..(i - 1) : rows[j].SYMBOL # rows[i].SYMBOL
        RECURSIVE from(_)
        from(i) == IF i > Len(rows) THEN <<>>
                   ELSE (IF Keep(i) THEN <<rows[i]>> ELSE <<>>) \o from(i + 1)
    IN from(1)

\* df.drop_duplicates(subset=['SYMBOL'], keep='last'): a row stays when no
\* later row has its SYMBOL.
drop_duplicates_last(rows) ==
    LET Keep(i) == \A j \in (i + 1)..Len(rows) : rows[j].SYMBOL # rows[i].SYMBOL
        RECURSIVE from(_)
        from(i) == IF i > Len(rows) THEN <<>>
                   ELSE (IF Keep(i) THEN <<rows[i]>> ELSE <<>>) \o from(i + 1)
    IN from(1)

\* The order of sort_values(by=['Expiry_Date', 'Time', 'SYMBOL']); the
\* column Expiry_Date holds '%Y-%m-%d' strings, which compare as
\* <<year, month, day>> does.
ymd_less(a, b) ==
    \/ a[1] < b[1]
    \/ a[1] = b[1] /\ a[2] < b[2]
    \/ a[1] = b[1] /\ a[2] = b[2] /\ a[3] < b[3]

row_less(r, q) ==
    \/ ymd_less(r.Expiry_Date, q.Expiry_Date)
    \/ /\ r.Expiry_Date = q.Expiry_Date
       /\ \/ r.Time < q.Time
          \/ r.Time = q.Time /\ str_less(r.SYMBOL, q.SYMBOL)

\* Insert row r into the sorted rows, after the rows it does not precede.
RECURSIVE insert_row(_, _)
insert_row(r, rows) ==
    IF rows = <<>> THEN <<r>>
    ELSE IF row_less(r, Head(rows)) THEN <<r>> \o rows
    ELSE <<Head(rows)>> \o insert_row(r, Tail(rows))

\* sort_values: rows with equal keys keep their order.
RECURSIVE sort_values(_)
sort_values(rows) ==
    IF rows = <<>> THEN <<>>
    ELSE insert_row(rows[Len(rows)], sort_values(SubSeq(rows, 1, Len(rows) - 1)))

\* The rows fetch_eth_options_data returns for the records ts of the feed;
\* <<>> is the empty DataFrame.
fetch_eth_options_data(v, ts, day, time) ==
    IF Len(ts) = 0 THEN <<>>
    ELSE LET target_expiries == target_expiries_of(v, ts, day)
         IN IF target_expiries = <<>> THEN <<>>
            ELSE sort_values(drop_duplicates_last(
                     eth_options(v, ts, target_expiries, day, time)))


(***************************************************************************)
(* The worksheet.  append_rows(values, value_input_option='USER_ENTERED')  *)
(* writes a number as a number and None or '' as an empty cell;            *)
(* get_all_records() gives a number back as a number and an empty cell as  *)
(* ''.  The sheet has its header row, so the records are the rows below.   *)
(***************************************************************************)
TailRows == 300

\* clean_dataframe_for_json, one cell: NaN becomes None.
clean_cell(c) == IF c = NaN THEN None ELSE c

\* One cell written and read back.
sheet_cell(c) == IF is_num(c) THEN c ELSE Blank

clean_dataframe_for_json(df) ==
    [i \in DOMAIN df |->
        [df[i] EXCEPT !.Close = clean_cell(@),
                      !.Open = clean_cell(@),
                      !.OI_Change = clean_cell(@)]]

\* df_cleaned.values.tolist() as the sheet keeps it: the row of a frame as
\* the record get_all_records() returns for it.
sheet_rows(df) ==
    [i \in DOMAIN df |->
        [df[i] EXCEPT !.Close = sheet_cell(@),
                      !.OI = Num(@),
                      !.Open = sheet_cell(@),
                      !.OI_Change = sheet_cell(@)]]

\* df.tail(300).
tail(rows) ==
    IF Len(rows) <= TailRows THEN rows
    ELSE SubSeq(rows, Len(rows) - TailRows + 1, Len(rows))

\* get_previous_data when the read succeeds.
get_previous_data(sheet) == IF sheet = <<>> THEN <<>> ELSE tail(sheet)

\* Variant of read_failed: the rows are returned although the read raised.
read_failed_with_rows(sheet) == tail(sheet)

\* get_previous_data when get_all_records() raises: the except clause
\* returns pd.DataFrame().
read_failed(sheet) == <<>>

\* pd.to_numeric(column, errors='coerce'), one cell.
to_numeric(c) == IF is_num(c) THEN c ELSE NaN

(***************************************************************************)
(* calculate_open_and_oi_change, src/main.py: the left merge on SYMBOL.    *)
(***************************************************************************)
\* Mutant of merged_row: the change is taken the other way round.
merged_row_reversed(row, close_prev, oi_prev) ==
    [row EXCEPT
        !.Open = IF close_prev = NaN THEN Blank ELSE close_prev,
        !.OI_Change = IF oi_prev = NaN THEN NaN ELSE Num(oi_prev[2] - row.OI)]

\* Lines 274-278: Open and OI_Change of one merged row.
merged_row(row, close_prev, oi_prev) ==
    [row EXCEPT
        !.Open = IF close_prev = NaN THEN Blank ELSE close_prev,
        !.OI_Change = IF oi_prev = NaN THEN NaN ELSE Num(row.OI - oi_prev[2])]

\* Lines 267-272: the rows the merge makes of one current row: one per
\* previous row with its SYMBOL, in their order, or one with no match.
merge_left(row, previous) ==
    LET Same(prev) == prev.SYMBOL = row.SYMBOL
        matches == SelectSeq(previous, Same)
    IN IF matches = <<>> THEN <<merged_row(row, NaN, NaN)>>
       ELSE [i \in DOMAIN matches |->
                merged_row(row, to_numeric(matches[i].Close),
                           to_numeric(matches[i].OI))]

RECURSIVE merge_rows(_, _)
merge_rows(current, previous) ==
    IF current = <<>> THEN <<>>
    ELSE merge_left(Head(current), previous) \o merge_rows(Tail(current), previous)

\* Lines 259-262: with no previous rows both columns are ''.
blank_rows(current) ==
    [i \in DOMAIN current |-> [current[i] EXCEPT !.Open = Blank, !.OI_Change = Blank]]

calculate_main(current, previous) ==
    IF previous = <<>> THEN blank_rows(current)
    ELSE sort_values(merge_rows(current, previous))

(***************************************************************************)
(* calculate_open_and_oi_change, src/deltaweekly.py: the lookup dict.      *)
(***************************************************************************)
\* Lines 313-319: previous_lookup[symbol]; the last previous row of a
\* symbol wins, and a value that is not a number counts as 0.
previous_lookup(previous, symbol) ==
    LET last == CHOOSE i \in DOMAIN previous :
                    /\ previous[i].SYMBOL = symbol
                    /\ \A j \in (i + 1)..Len(previous) : previous[j].SYMBOL # symbol
        close == to_numeric(previous[last].Close)
        oi == to_numeric(previous[last].OI)
    IN [Close |-> IF close = NaN THEN 0 ELSE close[2],
        OI |-> IF oi = NaN THEN 0 ELSE oi[2]]

\* Lines 327-341: Open and OI_Change of one current row.
looked_up_row(row, previous) ==
    IF \E i \in DOMAIN previous : previous[i].SYMBOL = row.SYMBOL
    THEN LET prev == previous_lookup(previous, row.SYMBOL)
         IN [row EXCEPT !.Open = Num(prev.Close),
                        !.OI_Change = Num(row.OI - prev.OI)]
    ELSE [row EXCEPT !.Open = Num(0), !.OI_Change = Num(0)]

\* Lines 301-306: with no previous rows both columns are 0.
zero_rows(current) ==
    [i \in DOMAIN current |-> [current[i] EXCEPT !.Open = Num(0), !.OI_Change = Num(0)]]

\* Lines 344-345: the columns are assigned to current_df itself.
looked_up_rows(current, previous) ==
    [i \in DOMAIN current |-> looked_up_row(current[i], previous)]

calculate_weekly(current, previous) ==
    IF previous = <<>> THEN zero_rows(current)
    ELSE sort_values(looked_up_rows(current, previous))

\* final_df of either file.
calculate_open_and_oi_change(v, current, previous) ==
    IF v = "main" THEN calculate_main(current, previous)
    ELSE calculate_weekly(current, previous)

\* current_df after the call: both files assign to it when there are no
\* previous rows, deltaweekly.py also when there are.
current_after(v, current, previous) ==
    IF previous = <<>> THEN calculate_open_and_oi_change(v, current, previous)
    ELSE IF v = "main" THEN current
    ELSE looked_up_rows(current, previous)


(***************************************************************************)
(* SpecSel: the selectors as pure functions.  Init draws the input list    *)
(* and today; one action per selector applies it.                          *)
(***************************************************************************)
\* The variables of main() when main() is not modelled.
RunIdle ==
    /\ tickers = <<>> /\ current_df = <<>> /\ previous_df = <<>>
    /\ final_df = <<>> /\ success = FALSE /\ outcome = "none"
    /\ appended = <<>> /\ read_error = FALSE

\* fetch_eth_options_data when it is not called on its own.
FetchIdle ==
    /\ fetch_called = FALSE /\ fetch_window = <<>> /\ parse_kinds = <<>>

MainIdle ==
    /\ variant = "main" /\ date_today = 0 /\ worksheet = <<>>
    /\ pc = "idle" /\ polls = 0 /\ last_batch = <<>>
    /\ RunIdle

\* Longest input list.
MaxDates == 4

\* Wed 12, Thu 13, Fri 14, Mon 17, Fri 21, Fri 28 February 2025.
SelDates ==
    {date(2025, 2, 12), date(2025, 2, 13), date(2025, 2, 14),
     date(2025, 2, 17), date(2025, 2, 21), date(2025, 2, 28)}

\* Before all of them, on a Friday, between two Fridays, after all of them.
SelTodays ==
    {date(2025, 2, 10), date(2025, 2, 14), date(2025, 2, 18), date(2025, 3, 1)}

BandIdle ==
    /\ future_price = 0 /\ strike_price = 0 /\ percentage = 0
    /\ band_called = FALSE /\ band_result = FALSE

InitSel ==
    /\ expiry_dates \in ListsUpTo(SelDates, MaxDates)
    /\ current_date \in SelTodays
    /\ selector = "none"
    /\ window = <<>>
    /\ BandIdle
    /\ MainIdle
    /\ FetchIdle

SelectPolicyA ==
    /\ selector = "none"
    /\ selector' = "A"
    /\ window' = get_current_and_next_friday_expiry(expiry_dates, current_date)
    /\ UNCHANGED <<expiry_dates, current_date, bandVars, mainVars, fetchVars>>

SelectPolicyB ==
    /\ selector = "none"
    /\ selector' = "B"
    /\ window' = get_current_and_next_expiry(expiry_dates, current_date)
    /\ UNCHANGED <<expiry_dates, current_date, bandVars, mainVars, fetchVars>>

NextSel == SelectPolicyA \/ SelectPolicyB

SpecSel == InitSel /\ [][NextSel]_vars

(***************************************************************************)
(* Claims about the selectors, stated on the set of input dates.           *)
(***************************************************************************)
InputDates == Range(expiry_dates)
ActiveDates == {d \in InputDates : d >= current_date}
ActiveFridays == {d \in ActiveDates : weekday(d) = 4}

\* A Friday with at least 2 other active expiries strictly before it.
HasTwoBefore(f) == Cardinality({e \in ActiveDates : e < f}) >= 2
CountedFridays == {f \in ActiveFridays : HasTwoBefore(f)}

ExpectedW1A ==
    IF CountedFridays # {} THEN SetMin(CountedFridays) ELSE SetMin(ActiveFridays)

ExpectedWindowA ==
    LET later == {f \in ActiveFridays : f > ExpectedW1A}
    IN <<ExpectedW1A>> \o (IF later = {} THEN <<>> ELSE <<SetMin(later)>>)

\* C1: Policy A returns [W1] or [W1, W2]: W1 the earliest active Friday with
\* at least 2 other active expiries strictly before it, or the earliest
\* active Friday when there is none; W2 the earliest Friday after W1.
C1_PolicyA ==
    (selector = "A" /\ ActiveFridays # {}) => window = ExpectedWindowA

\* The count rule skips the earliest Friday, and a later Friday follows W1.
C1_Witness ==
    /\ selector = "A"
    /\ ActiveFridays # {}
    /\ CountedFridays # {}
    /\ ExpectedW1A # SetMin(ActiveFridays)
    /\ Len(window) = 2

ExpectedWindowB ==
    LET w1 == SetMin(ActiveDates)
        later == {d \in InputDates : d > w1}
    IN <<w1>> \o (IF later = {} THEN <<>> ELSE <<SetMin(later)>>)

\* C2: Policy B returns the earliest input date >= today, then the earliest
\* input date strictly greater than it, omitted when there is none.
C2_PolicyB ==
    (selector = "B" /\ ActiveDates # {}) => window = ExpectedWindowB

\* An expired date is skipped, W1 is not a Friday, and W2 exists.
C2_Witness ==
    /\ selector = "B"
    /\ ActiveDates # {}
    /\ InputDates \ ActiveDates # {}
    /\ Len(window) = 2
    /\ weekday(window[1]) # 4

\* C3: either selector returns at most 2 dates, each >= today, and the
\* empty window whenever the input holds no date >= today.
C3_WindowActive ==
    selector # "none" =>
        /\ Len(window) <= 2
        /\ \A i \in DOMAIN window : window[i] >= current_date
        /\ ActiveDates = {} => window = <<>>

(***************************************************************************)
(* SpecBand: filter_strikes_by_percentage as a pure function.  Init draws  *)
(* spot, strike and band; the one action calls the function.               *)
(***************************************************************************)
\* Spots are the multiples of 25 up to 25 * MaxSpotUnits, and 4000.
MaxSpotUnits == 8
\* Bands are the whole percentages 0..MaxBand.
MaxBand == 30

BandSpots == {25 * k : k \in 0..MaxSpotUnits} \cup {4000}

\* The strikes on, just inside and just outside either bound, and 0, 1, spot.
BandStrikes(fp, pct) ==
    LET lo == (fp * (100 - pct)) \div 100
        hi == (fp * (100 + pct)) \div 100
    IN {lo - 1, lo, lo + 1, hi - 1, hi, hi + 1, 0, 1, fp} \cap Nat

SelIdle ==
    /\ expiry_dates = <<>> /\ current_date = 0
    /\ selector = "none" /\ window = <<>>

InitBand ==
    /\ future_price \in BandSpots
    /\ percentage \in 0..MaxBand
    /\ strike_price \in BandStrikes(future_price, percentage)
    /\ band_called = FALSE
    /\ band_result = FALSE
    /\ SelIdle
    /\ MainIdle
    /\ FetchIdle

CallBandFilter ==
    /\ ~band_called
    /\ band_called' = TRUE
    /\ band_result' = filter_strikes_by_percentage(future_price, strike_price, percentage)
    /\ UNCHANGED <<future_price, strike_price, percentage, selVars, mainVars,
                   fetchVars>>

NextBand == CallBandFilter

SpecBand == InitBand /\ [][NextBand]_vars

\* spot*(1 - band/100) <= strike <= spot*(1 + band/100), in exact arithmetic.
ExactInBand(fp, strike, pct) ==
    /\ fp * (100 - pct) <= 100 * strike
    /\ 100 * strike <= fp * (100 + pct)

\* C9: the function returns true iff the strike lies between the two bounds,
\* both inclusive.
C9_InclusiveBand ==
    band_called =>
        (band_result <=> ExactInBand(future_price, strike_price, percentage))

\* C10 as amended: with spot 0 the band is the single point 0; the function
\* returns false for every strike > 0 and true for strike 0.
C10_ZeroSpotBand ==
    (band_called /\ future_price = 0) => (band_result <=> strike_price = 0)

\* Spot 0, strike 0, the weekly band: the strike is kept.
C10_Witness ==
    /\ band_called
    /\ future_price = 0
    /\ strike_price = 0
    /\ percentage = 25
    /\ band_result

\* C10 as claimed: with spot 0 the function returns false for every strike
\* >= 0, strike 0 included.
C10_ZeroSpotExcludesAll ==
    (band_called /\ future_price = 0) => ~band_result

(***************************************************************************)
(* Spec: main(), run after run.  The feed's records are drawn from         *)
(* Tickers; spot is 2700, so the 7% band is [2511, 2889] and the 25% band  *)
(* [2025, 3375].                                                           *)
(***************************************************************************)
\* Runs of main().
MaxPolls == 3
\* Records in one answer of the feed.
MaxFeed == 2

symbol_of(kind, strike, expiry) ==
    <<kind, "-", "E", "T", "H", "-">> \o strike \o <<"-">> \o expiry

ticker(symbol, contract_type, strike, mark, oi) ==
    [symbol |-> symbol, contract_type |-> contract_type, strike_price |-> strike,
     spot_price |-> <<2700>>, mark_price |-> <<mark>>, oi_contracts |-> <<oi>>]

\* C-ETH-2700-140225, expiring Friday 14 February 2025.
SymA == symbol_of("C", <<"2", "7", "0", "0">>, <<"1", "4", "0", "2", "2", "5">>)
TickA == ticker(SymA, "call_options", <<2700>>, 50, 10)
\* The same contract quoted again, at another price and open interest.
TickA2 == ticker(SymA, "call_options", <<2700>>, 55, 12)
\* P-ETH-2700-210225, expiring Friday 21 February 2025.
TickB ==
    ticker(symbol_of("P", <<"2", "7", "0", "0">>, <<"2", "1", "0", "2", "2", "5">>),
           "put_options", <<2700>>, 40, 7)
\* C-ETH-2800-170225, expiring Monday 17 February 2025.
TickMon ==
    ticker(symbol_of("C", <<"2", "8", "0", "0">>, <<"1", "7", "0", "2", "2", "5">>),
           "call_options", <<2800>>, 30, 5)
\* C-ETH-3200-140225: outside the 7% band, inside the 25% band.
TickWide ==
    ticker(symbol_of("C", <<"3", "2", "0", "0">>, <<"1", "4", "0", "2", "2", "5">>),
           "call_options", <<3200>>, 20, 3)
\* C-ETH-2600-130225 with no strike_price: a symbol that decodes (Thursday
\* 13 February 2025) on a record the second pass rejects.
TickNoStrike ==
    ticker(symbol_of("C", <<"2", "6", "0", "0">>, <<"1", "3", "0", "2", "2", "5">>),
           "call_options", <<>>, 10, 1)
\* C-ETH-2700-1402: an expiry suffix of 4 digits.
TickShort ==
    ticker(symbol_of("C", <<"2", "7", "0", "0">>, <<"1", "4", "0", "2">>),
           "call_options", <<2700>>, 50, 10)

Tickers == {TickA, TickA2, TickB, TickMon, TickWide, TickNoStrike, TickShort}

Feeds == ListsUpTo(Tickers, MaxFeed)

\* Thursday 13 and Saturday 15 February 2025.
PollTodays == {date(2025, 2, 13), date(2025, 2, 15)}

Init ==
    /\ variant \in {"main", "weekly"}
    /\ date_today \in PollTodays
    /\ worksheet = <<>>
    /\ pc = "idle"
    /\ polls = 0
    /\ last_batch = <<>>
    /\ RunIdle
    /\ SelIdle
    /\ BandIdle
    /\ FetchIdle

\* What a run leaves alone: the harness variables, the file and the date.
Fixed == UNCHANGED <<selVars, bandVars, fetchVars, variant, date_today>>

\* main() is called: get_sheets_client() returns a client or None.
StartPoll ==
    /\ pc = "idle"
    /\ polls < MaxPolls
    /\ polls' = polls + 1
    /\ tickers' = <<>> /\ current_df' = <<>> /\ previous_df' = <<>>
    /\ final_df' = <<>> /\ success' = FALSE /\ appended' = <<>>
    /\ read_error' = FALSE
    /\ last_batch' = IF appended # <<>> THEN appended ELSE last_batch
    /\ \/ pc' = "open" /\ outcome' = "none"
       \/ pc' = "idle" /\ outcome' = "no_client"
    /\ UNCHANGED worksheet
    /\ Fixed

\* client.open_by_key(...) and the worksheet lookup, inside main()'s try.
OpenSheet ==
    /\ pc = "open"
    /\ \/ pc' = "fetch" /\ outcome' = "none"
       \/ pc' = "idle" /\ outcome' = "error"
    /\ UNCHANGED <<worksheet, polls, last_batch, tickers, current_df, previous_df,
                   final_df, success, appended, read_error>>
    /\ Fixed

\* fetch_eth_options_data(): the feed answers with some records, or the
\* request raises and the function returns the empty frame; main() returns
\* on an empty frame.
FetchReturns(feed, rows) ==
    IF rows = <<>>
    THEN /\ pc' = "idle" /\ outcome' = "no_data"
         /\ tickers' = <<>> /\ current_df' = <<>>
    ELSE /\ pc' = "previous" /\ outcome' = "none"
         /\ tickers' = feed /\ current_df' = rows

Fetch ==
    /\ pc = "fetch"
    /\ \/ \E feed \in Feeds :
             FetchReturns(feed, fetch_eth_options_data(variant, feed, date_today, polls))
       \/ FetchReturns(<<>>, <<>>)
    /\ UNCHANGED <<worksheet, polls, last_batch, previous_df, final_df, success,
                   appended, read_error>>
    /\ Fixed

\* get_previous_data(worksheet): the records, or, when the read raises, the
\* error is logged and the empty frame returned.
GetPrevious ==
    /\ pc = "previous"
    /\ \/ previous_df' = get_previous_data(worksheet) /\ read_error' = FALSE
       \/ previous_df' = read_failed(worksheet) /\ read_error' = TRUE
    /\ pc' = "calculate"
    /\ UNCHANGED <<worksheet, polls, last_batch, tickers, current_df, final_df,
                   success, outcome, appended>>
    /\ Fixed

\* final_df = calculate_open_and_oi_change(current_df, previous_df).
Calculate ==
    /\ pc = "calculate"
    /\ final_df' = calculate_open_and_oi_change(variant, current_df, previous_df)
    /\ current_df' = current_after(variant, current_df, previous_df)
    /\ pc' = "append"
    /\ UNCHANGED <<worksheet, polls, last_batch, tickers, previous_df, success,
                   outcome, appended, read_error>>
    /\ Fixed

\* append_to_sheets(final_df, worksheet): append_rows adds the batch and
\* True is returned, or it raises, nothing is added and False is returned.
AppendToSheets ==
    /\ pc = "append"
    /\ \/ /\ worksheet' = worksheet \o sheet_rows(clean_dataframe_for_json(final_df))
          /\ appended' = sheet_rows(clean_dataframe_for_json(final_df))
          /\ success' = TRUE
          /\ outcome' = "appended"
       \/ /\ success' = FALSE
          /\ outcome' = "append_error"
          /\ UNCHANGED <<worksheet, appended>>
    /\ pc' = "report"
    /\ UNCHANGED <<polls, last_batch, tickers, current_df, previous_df, final_df,
                   read_error>>
    /\ Fixed

\* The end of main(): SUCCESS or FAILED is logged and the locals are gone.  deltaweekly.py reads
\* target_expiries on the success path, a name main() never binds: the
\* NameError lands in the except clause, which logs an error.
Report ==
    /\ pc = "report"
    /\ outcome' = IF ~success THEN "failed"
                  ELSE IF variant = "main" THEN "success"
                  ELSE "error"
    /\ pc' = "idle"
    /\ tickers' = <<>> /\ current_df' = <<>> /\ previous_df' = <<>>
    /\ final_df' = <<>> /\ read_error' = FALSE
    /\ UNCHANGED <<worksheet, polls, last_batch, success, appended>>
    /\ Fixed

Next ==
    \/ StartPoll
    \/ OpenSheet
    \/ Fetch
    \/ GetPrevious
    \/ Calculate
    \/ AppendToSheets
    \/ Report

Spec == Init /\ [][Next]_vars

(***************************************************************************)
(* Claims about main().                                                    *)
(***************************************************************************)
Symbols(rows) == {rows[i].SYMBOL : i \in DOMAIN rows}

\* C4: a current contract whose SYMBOL is in no previous row (every
\* contract, when there are no previous rows) gets the unknown sentinel in
\* Open and in OI_Change, never a number.
C4_UnknownForNew ==
    pc = "append" =>
        \A i \in DOMAIN final_df :
            final_df[i].SYMBOL \notin Symbols(previous_df) =>
                /\ ~is_num(final_df[i].Open)
                /\ ~is_num(final_df[i].OI_Change)

\* The previous rows this run read are exactly the rows the run before it
\* appended.
ReadsLastBatch == last_batch # <<>> /\ previous_df = last_batch

\* C5: when the previous rows of a run are exactly the rows the run before
\* appended, OI_Change of every contract in both is the number OI of this
\* run minus OI of that run.
C5_RoundTrip ==
    (pc = "append" /\ ReadsLastBatch) =>
        \A i \in DOMAIN final_df : \A j \in DOMAIN last_batch :
            final_df[i].SYMBOL = last_batch[j].SYMBOL =>
                final_df[i].OI_Change = Num(final_df[i].OI - last_batch[j].OI[2])

\* A contract of both runs whose open interest went from 10 to 12.
C5_Witness ==
    /\ pc = "append"
    /\ ReadsLastBatch
    /\ \E i \in DOMAIN final_df : \E j \in DOMAIN last_batch :
          /\ final_df[i].SYMBOL = last_batch[j].SYMBOL
          /\ last_batch[j].OI = Num(10)
          /\ final_df[i].OI = 12
          /\ final_df[i].OI_Change = Num(2)

RowsOf(rows, symbol) == {k \in DOMAIN rows : rows[k].SYMBOL = symbol}

\* C6: the rows handed to the sheet hold exactly one row per SYMBOL of the
\* current snapshot, whatever the previous rows are.
C6_OneRowPerContract ==
    pc = "append" =>
        /\ Symbols(final_df) = Symbols(current_df)
        /\ \A i \in DOMAIN current_df :
              Cardinality(RowsOf(final_df, current_df[i].SYMBOL)) = 1

\* C7: a run ends with success reported and its whole batch appended, or
\* with a failure or nothing-to-do reported and nothing appended.
C7_AppendsOrFails ==
    /\ (pc = "report" /\ success) =>
          appended = sheet_rows(clean_dataframe_for_json(final_df))
    /\ (pc = "idle" /\ polls > 0) =>
          \/ outcome = "success" /\ appended # <<>>
          \/ outcome \in {"failed", "no_data", "no_client", "error"} /\ appended = <<>>

\* The records of the feed the second pass turns into a row.
Accepted ==
    LET target_expiries == target_expiries_of(variant, tickers, date_today)
    IN {i \in DOMAIN tickers :
          second_pass(variant, tickers[i], target_expiries, date_today, polls).kind
              = "row"}

LastOf(accepted, symbol) ==
    CHOOSE i \in accepted :
        /\ tickers[i].symbol = symbol
        /\ \A j \in accepted : tickers[j].symbol = symbol => j <= i

\* C8: the rows fetched hold exactly one row per SYMBOL of the accepted
\* records, with the price and open interest of the last accepted record of
\* that SYMBOL.
C8_LastWins ==
    pc = "previous" =>
        LET accepted == Accepted IN
        /\ Symbols(current_df) = {tickers[i].symbol : i \in accepted}
        /\ \A k \in DOMAIN current_df :
              /\ Cardinality(RowsOf(current_df, current_df[k].SYMBOL)) = 1
              /\ LET last == tickers[LastOf(accepted, current_df[k].SYMBOL)]
                 IN /\ current_df[k].Close = Num(last.mark_price[1])
                    /\ current_df[k].OI = last.oi_contracts[1]

\* Two accepted records of one SYMBOL at different prices, one row.
C8_Witness ==
    /\ pc = "previous"
    /\ LET accepted == Accepted
       IN \E i \in accepted : \E j \in accepted :
          /\ i < j
          /\ tickers[i].symbol = tickers[j].symbol
          /\ tickers[i].mark_price # tickers[j].mark_price
    /\ Len(current_df) = 1

(***************************************************************************)
(* SpecFetch: fetch_eth_options_data as a function of the feed.  Init      *)
(* draws the file, today and the feed's records; the one action calls the  *)
(* function and keeps its window, what the second pass did with each       *)
(* record, and the frame it returned.                                      *)
(***************************************************************************)
\* Lines 148-214, the whole loop: per record, the counter it went to
\* ("failed": failed_parses, "strike": filtered_by_strike), "expiry" when it
\* was outside the window, "row" when it was appended to eth_options.
second_pass_kinds(v, ts, target_expiries, day, time) ==
    [i \in DOMAIN ts |-> second_pass(v, ts[i], target_expiries, day, time).kind]

\* P-ETH-2800-140225 with no mark_price.
TickNoMark ==
    [ticker(symbol_of("P", <<"2", "8", "0", "0">>, <<"1", "4", "0", "2", "2", "5">>),
            "put_options", <<2800>>, 0, 4) EXCEPT !.mark_price = <<>>]
\* C-ETH-2800-210225 with no spot_price.
TickNoSpot ==
    [ticker(symbol_of("C", <<"2", "8", "0", "0">>, <<"2", "1", "0", "2", "2", "5">>),
            "call_options", <<2800>>, 35, 6) EXCEPT !.spot_price = <<>>]
\* P-ETH-2600-210225 with no contract_type.
TickNoType ==
    ticker(symbol_of("P", <<"2", "6", "0", "0">>, <<"2", "1", "0", "2", "2", "5">>),
           "", <<2600>>, 25, 8)
\* A record with no symbol.
TickNoSymbol == ticker(<<>>, "call_options", <<2700>>, 50, 10)
\* C-ETH-2700-14CE25: an expiry suffix of 6 characters that are not digits.
TickLetters ==
    ticker(symbol_of("C", <<"2", "7", "0", "0">>, <<"1", "4", "C", "E", "2", "5">>),
           "call_options", <<2700>>, 50, 10)
\* C-ETH-3200-1402: a suffix of 4 digits on a strike outside the 7% band.
TickShortWide ==
    ticker(symbol_of("C", <<"3", "2", "0", "0">>, <<"1", "4", "0", "2">>),
           "call_options", <<3200>>, 20, 3)

FetchTickers ==
    Tickers \cup {TickNoMark, TickNoSpot, TickNoType, TickNoSymbol, TickLetters,
                  TickShortWide}

FetchFeeds == ListsUpTo(FetchTickers, MaxFeed)

InitFetch ==
    /\ variant \in {"main", "weekly"}
    /\ date_today \in PollTodays
    /\ tickers \in FetchFeeds
    /\ worksheet = <<>> /\ pc = "idle" /\ polls = 0 /\ last_batch = <<>>
    /\ current_df = <<>> /\ previous_df = <<>> /\ final_df = <<>>
    /\ success = FALSE /\ outcome = "none" /\ appended = <<>>
    /\ read_error = FALSE
    /\ SelIdle
    /\ BandIdle
    /\ FetchIdle

\* fetch_eth_options_data() on the records tickers, at time 1.  The window
\* is empty when the function returned before the second pass.
CallFetch ==
    /\ ~fetch_called
    /\ fetch_called' = TRUE
    /\ fetch_window' =
          IF Len(tickers) = 0 THEN <<>>
          ELSE target_expiries_of(variant, tickers, date_today)
    /\ parse_kinds' =
          IF fetch_window' = <<>> THEN <<>>
          ELSE second_pass_kinds(variant, tickers, fetch_window', date_today, 1)
    /\ current_df' = fetch_eth_options_data(variant, tickers, date_today, 1)
    /\ UNCHANGED <<selVars, bandVars, variant, date_today, worksheet, pc, polls,
                   last_batch, tickers, previous_df, final_df, success, outcome,
                   appended, read_error>>

NextFetch == CallFetch

SpecFetch == InitFetch /\ [][NextFetch]_vars

(***************************************************************************)
(* Claims about fetch_eth_options_data.                                    *)
(***************************************************************************)
\* A record that lacks one of the required fields.
LacksField(t) ==
    \/ t.symbol = <<>> \/ t.strike_price = <<>> \/ t.contract_type = ""
    \/ t.spot_price = <<>> \/ t.mark_price = <<>>

\* The expiry suffix of a symbol: what follows its last '-'.
SuffixOf(symbol) == LET parts == split(symbol) IN parts[Len(parts)]

SixDigits(sfx) == Len(sfx) = 6 /\ \A k \in DOMAIN sfx : is_digit(sfx[k])

Malformed(t) == LacksField(t) \/ ~SixDigits(SuffixOf(t.symbol))

\* C11: in the second pass every record that lacks a required field (symbol,
\* strike price, contract type, spot price, mark price) or whose expiry
\* suffix is not 6 digits is counted as a failed parse and gives no row, and
\* the loop goes on over all the records.
C11_MalformedRejected ==
    (fetch_called /\ fetch_window # <<>>) =>
        /\ Len(parse_kinds) = Len(tickers)
        /\ \A i \in DOMAIN tickers :
              Malformed(tickers[i]) => parse_kinds[i] = "failed"

(***************************************************************************)
(* SpecDelta: calculate_open_and_oi_change as a function of the current    *)
(* frame and the previous rows.  Init draws the file, a current frame and  *)
(* the records get_previous_data read, whose Close and OI cells hold a     *)
(* number, nothing, or a text; the action is main()'s call of the function.*)
(***************************************************************************)
\* Longest list of previous rows.
MaxPrior == 2

\* A cell holding a string that is not a number, as get_all_records()
\* returns it.
Text == <<"text">>

\* The frames of the second run: one contract, two contracts.
CurrentFrames(v) ==
    {fetch_eth_options_data(v, feed, date(2025, 2, 13), 2) :
        feed \in {<<TickA2>>, <<TickA2, TickB>>}}

\* The rows a first run wrote for the two contracts, as records of the sheet.
WrittenRows(v) ==
    LET first == fetch_eth_options_data(v, <<TickA, TickB>>, date(2025, 2, 13), 1)
    IN Range(sheet_rows(clean_dataframe_for_json(
                 calculate_open_and_oi_change(v, first, <<>>))))

\* The same rows with the Close or the OI cell emptied or overwritten.
PriorRows(v) ==
    {[r EXCEPT !.Close = c, !.OI = o] :
        r \in WrittenRows(v), c \in {Num(50), Blank, Text}, o \in {Num(10), Blank, Text}}

InitDelta ==
    /\ variant \in {"main", "weekly"}
    /\ date_today = date(2025, 2, 13)
    /\ current_df \in CurrentFrames(variant)
    /\ previous_df \in ListsUpTo(PriorRows(variant), MaxPrior)
    /\ pc = "calculate"
    /\ worksheet = <<>> /\ polls = 0 /\ last_batch = <<>>
    /\ tickers = <<>> /\ final_df = <<>>
    /\ success = FALSE /\ outcome = "none" /\ appended = <<>>
    /\ read_error = FALSE
    /\ SelIdle
    /\ BandIdle
    /\ FetchIdle

NextDelta == Calculate

SpecDelta == InitDelta /\ [][NextDelta]_vars

\* The previous rows of a SYMBOL.
PriorOf(symbol) == {j \in DOMAIN previous_df : previous_df[j].SYMBOL = symbol}

\* C12: when the previous rows of a contract store no number in Close, the
\* contract's Open is the unknown sentinel, not a number; when they store no
\* number in OI, its OI_Change is the unknown sentinel, not a number.
C12_NonNumericIsAbsent ==
    pc = "append" =>
        \A i \in DOMAIN final_df :
            LET prior == PriorOf(final_df[i].SYMBOL) IN
            /\ (prior # {} /\ \A j \in prior : ~is_num(previous_df[j].Close))
                  => ~is_num(final_df[i].Open)
            /\ (prior # {} /\ \A j \in prior : ~is_num(previous_df[j].OI))
                  => ~is_num(final_df[i].OI_Change)

(***************************************************************************)
(* Claims about main() when the read of the previous rows fails.           *)
(***************************************************************************)
\* The delta fields either file gives a contract it has no previous row for:
\* no number in src/main.py, 0 and 0 in src/deltaweekly.py.
TreatedAsNew(row) ==
    IF variant = "main"
    THEN ~is_num(row.Open) /\ ~is_num(row.OI_Change)
    ELSE row.Open = Num(0) /\ row.OI_Change = Num(0)

\* C13: when the read of the previous rows fails the run goes on with no
\* previous rows: every current contract gets the delta fields of a new
\* contract, append_to_sheets is called, and the rows are appended when the
\* append succeeds.
C13_ReadFailureDegrades ==
    read_error =>
        /\ pc \in {"calculate", "append", "report"}
        /\ previous_df = <<>>
        /\ pc \in {"append", "report"} =>
              /\ final_df # <<>>
              /\ Symbols(final_df) = Symbols(current_df)
              /\ \A i \in DOMAIN final_df : TreatedAsNew(final_df[i])
        /\ pc = "report" =>
              /\ outcome \in {"appended", "append_error"}
              /\ success => appended = sheet_rows(clean_dataframe_for_json(final_df))

\* The read failed on a sheet that holds a row of a current contract with
\* another open interest, and the rows of the run were appended.
C13_Witness ==
    /\ read_error
    /\ pc = "report"
    /\ success
    /\ appended # <<>>
    /\ \E i \in DOMAIN final_df : \E j \in DOMAIN last_batch :
          /\ final_df[i].SYMBOL = last_batch[j].SYMBOL
          /\ last_batch[j].OI # Num(final_df[i].OI)

(***************************************************************************)
(* Claims about the selectors as functions of the set of dates.            *)
(***************************************************************************)
\* The selector that ran, applied to another list.
SelectorOn(dates) ==
    IF selector = "A" THEN get_current_and_next_friday_expiry(dates, current_date)
    ELSE get_current_and_next_expiry(dates, current_date)

\* The one ascending list without repetition over the dates of the input.
CanonicalDates == SortedList(InputDates)

\* C14: for a fixed today, either selector returns the same window, element
\* for element, on every list with the same set of distinct dates: the
\* window of a list is the window of the ascending list of its dates, which
\* all the lists with that set share.
C14_OrderIndependent ==
    selector # "none" => SelectorOn(CanonicalDates) = window

\* The input is out of order and repeats a date, and the window has two
\* dates.
C14_Witness ==
    /\ selector # "none"
    /\ Len(expiry_dates) > Cardinality(InputDates)
    /\ \E i \in DOMAIN expiry_dates : \E j \in DOMAIN expiry_dates :
          i < j /\ expiry_dates[i] > expiry_dates[j]
    /\ expiry_dates # CanonicalDates
    /\ Len(window) = 2

(***************************************************************************)
(* Claims about the window and the rows of a poll.                         *)
(***************************************************************************)
\* A record the second pass rejects as malformed whatever the window is.
RejectedAsMalformed(t) ==
    \/ t.symbol = <<>> \/ t.strike_price = <<>> \/ t.contract_type = ""
    \/ t.spot_price = <<>>
    \/ ~SixDigits(SuffixOf(t.symbol))

\* The feed without its i-th record.
WithoutRecord(ts, i) == SubSeq(ts, 1, i - 1) \o SubSeq(ts, i + 1, Len(ts))

\* The window fetch_eth_options_data computes for a feed.
WindowOfFeed(ts) ==
    IF Len(ts) = 0 THEN <<>> ELSE target_expiries_of(variant, ts, date_today)

\* C15: the window depends only on the records that pass adaptation: the
\* feed without one of its records rejected as malformed has the same
\* window.
C15_WindowFromAdapted ==
    fetch_called =>
        \A i \in DOMAIN tickers :
            RejectedAsMalformed(tickers[i]) =>
                WindowOfFeed(WithoutRecord(tickers, i)) = fetch_window

\* The band of each file: 7% in src/main.py, 25% in src/deltaweekly.py.
BandPercent == IF variant = "main" THEN 7 ELSE 25

\* The expiry date an accepted record's symbol ends in.
ExpiryOf(t) == date_of(parse_expiry(SuffixOf(t.symbol))[1])

\* The records of the feed that are accepted (not rejected as malformed)
\* and pass both filters: the expiry is in the window of the poll, the
\* strike in the band around the record's own spot.
PassingBoth ==
    {i \in DOMAIN tickers :
        /\ ~RejectedAsMalformed(tickers[i])
        /\ ExpiryOf(tickers[i]) \in Range(WindowOfFeed(tickers))
        /\ ExactInBand(tickers[i].spot_price[1], tickers[i].strike_price[1],
                       BandPercent)}

\* C16: every row a poll appends has its expiry in the window of the poll
\* and its strike in the band around its own spot, and the contracts of the
\* appended rows are exactly those of the accepted records that pass both
\* filters.
C16_RowsPassBothFilters ==
    (pc = "report" /\ success) =>
        /\ \A k \in DOMAIN appended :
              /\ date_of(appended[k].Expiry_Date) \in Range(WindowOfFeed(tickers))
              /\ ExactInBand(appended[k].Future_Price, appended[k].Strike, BandPercent)
        /\ Symbols(appended) = {tickers[i].symbol : i \in PassingBoth}

\* A feed of two accepted records: one passes both filters and is appended,
\* the other has its strike outside the band.
C16_Witness ==
    /\ pc = "report"
    /\ success
    /\ appended # <<>>
    /\ PassingBoth # {}
    /\ \E i \in DOMAIN tickers :
          /\ ~RejectedAsMalformed(tickers[i])
          /\ ~ExactInBand(tickers[i].spot_price[1], tickers[i].strike_price[1],
                          BandPercent)
          /\ tickers[i].symbol \notin Symbols(appended)

====
